---- MODULE Spec2Model ----
(***************************************************************************)
(* Field extraction of the Historic England scraper                        *)
(* (src/shared/scraper.py, HistoricEnglandScraper).                        *)
(*                                                                         *)
(* A document (the BeautifulSoup tree) is a sequence of elements, each a   *)
(* tag name and the text nodes below it in document order.  Text is a      *)
(* string; the regular expressions of the source are sequences of          *)
(* quantified character classes matched by backtracking, leftmost start    *)
(* first and greedy, as Python's re module does.                           *)
(***************************************************************************)
EXTENDS Integers, Sequences, FiniteSets, TLC

(***************************************************************************)
(* Characters and strings                                                  *)
(***************************************************************************)
CharAt(s, i) == SubSeq(s, i, i)

UpperLetters == "ABCDEFGHIJKLMNOPQRSTUVWXYZ"
LowerLetters == "abcdefghijklmnopqrstuvwxyz"
DigitChars == "0123456789"

CharsOf(s) == {CharAt(s, i) : i \in 1..Len(s)}

\* \s of the re module (the ASCII members that occur in page text)
Whitespace == {" ", "\n", "\t"}
\* \d
Digit == CharsOf(DigitChars)
\* [A-Z]
UpperAZ == CharsOf(UpperLetters)

LowerTable ==
    [c \in UpperAZ |->
        CharAt(LowerLetters, CHOOSE i \in 1..Len(UpperLetters) : CharAt(UpperLetters, i) = c)]

\* str.lower() on one character
LowerChar(c) == IF c \in UpperAZ THEN LowerTable[c] ELSE c

\* str.lower(), character by character (the string is halved to keep the
\* evaluation shallow)
RECURSIVE Lower(_)
Lower(s) ==
    IF Len(s) = 0 THEN ""
    ELSE IF Len(s) = 1 THEN LowerChar(s)
    ELSE LET h == Len(s) \div 2
         IN  Lower(SubSeq(s, 1, h)) \o Lower(SubSeq(s, h + 1, Len(s)))

RECURSIVE FirstNonSpace(_, _)
FirstNonSpace(s, i) ==
    IF i > Len(s) THEN i
    ELSE IF CharAt(s, i) \in Whitespace THEN FirstNonSpace(s, i + 1) ELSE i

RECURSIVE LastNonSpace(_, _)
LastNonSpace(s, i) ==
    IF i < 1 THEN i
    ELSE IF CharAt(s, i) \in Whitespace THEN LastNonSpace(s, i - 1) ELSE i

\* str.strip()
Strip(s) == SubSeq(s, FirstNonSpace(s, 1), LastNonSpace(s, Len(s)))

\* the `in` operator on strings: needle occurs in hay
Contains(hay, needle) ==
    \E i \in 1..(Len(hay) - Len(needle) + 1) : SubSeq(hay, i, i + Len(needle) - 1) = needle

(***************************************************************************)
(* Regular expressions: a pattern is a sequence of items, each a literal   *)
(* text or a character class with a repetition range lo..hi (hi = -1:      *)
(* unbounded), the items gs..ge forming capture group 1.  All patterns of  *)
(* the extractor are compiled with re.I, so literals and classes are kept  *)
(* case-folded and matched against the case-folded subject.                *)
(***************************************************************************)
Rep(cls, lo, hi) ==
    [kind |-> "rep", cls |-> {LowerChar(c) : c \in cls}, lo |-> lo, hi |-> hi]

Lit(s) == [kind |-> "lit", text |-> Lower(s)]

Pattern(items, gs, ge) == [items |-> items, gs |-> gs, ge |-> ge]

\* length of the run of class characters of s from pos, at most cap (-1: no cap)
RECURSIVE RunLen(_, _, _, _)
RunLen(cls, s, pos, cap) ==
    IF cap = 0 \/ pos > Len(s) \/ CharAt(s, pos) \notin cls THEN 0
    ELSE 1 + RunLen(cls, s, pos + 1, IF cap < 0 THEN cap ELSE cap - 1)

\* Backtracking match of items k.. at pos: the item boundaries
\* <<start of item k, ..., end of the match>>, or <<>> when there is none.
\* Each item first takes as many characters as it can, then gives back.
RECURSIVE MatchFrom(_, _, _, _)
RECURSIVE TryTake(_, _, _, _, _)
MatchFrom(items, k, s, pos) ==
    IF k > Len(items) THEN <<pos>>
    ELSE IF items[k].kind = "lit"
    THEN LET n == Len(items[k].text)
             rest == IF pos + n - 1 <= Len(s) /\ SubSeq(s, pos, pos + n - 1) = items[k].text
                     THEN MatchFrom(items, k + 1, s, pos + n) ELSE <<>>
         IN  IF rest # <<>> THEN <<pos>> \o rest ELSE <<>>
    ELSE LET n == RunLen(items[k].cls, s, pos, items[k].hi)
         IN  IF n < items[k].lo THEN <<>> ELSE TryTake(items, k, s, pos, n)

TryTake(items, k, s, pos, n) ==
    LET rest == MatchFrom(items, k + 1, s, pos + n)
    IN  IF rest # <<>> THEN <<pos>> \o rest
        ELSE IF n > items[k].lo THEN TryTake(items, k, s, pos, n - 1)
        ELSE <<>>

\* the match at the leftmost start position that has one
LeftmostMatch(items, t) ==
    LET starts == {i \in 1..(Len(t) + 1) : MatchFrom(items, 1, t, i) # <<>>}
    IN  IF starts = {} THEN <<>>
        ELSE MatchFrom(items, 1, t, CHOOSE i \in starts : \A j \in starts : i <= j)

\* None of Python
None == [none |-> TRUE]

\* re.search(pattern, s, re.I): the match object (the subject and the item
\* boundaries of the leftmost match), or None
ReSearch(p, s) ==
    LET b == LeftmostMatch(p.items, Lower(s))
    IN  IF b = <<>> THEN None ELSE [string |-> s, bounds |-> b, gs |-> p.gs, ge |-> p.ge]

\* match.group(1)
Group1(m) == SubSeq(m.string, m.bounds[m.gs], m.bounds[m.ge + 1] - 1)

(***************************************************************************)
(* The document: soup is a sequence of elements in document order, each    *)
(* with its tag name and its text nodes (NavigableStrings).                *)
(***************************************************************************)
Element(tag, strings) == [tag |-> tag, strings |-> strings]

RECURSIVE AllStrings(_)
\* the text nodes of the whole tree, in document order
AllStrings(soup) ==
    IF soup = <<>> THEN <<>> ELSE Head(soup).strings \o AllStrings(Tail(soup))

RECURSIVE Join(_)
Join(strings) == IF strings = <<>> THEN "" ELSE Head(strings) \o Join(Tail(strings))

\* Tag.get_text(): the text nodes below the element, concatenated
GetText(el) == Join(el.strings)

\* soup.find_all('p')
FindAllP(soup) == SelectSeq(soup, LAMBDA el : el.tag = "p")

\* a text node handed back by find(): the string, wrapped
Node(s) == [string |-> s]

RECURSIVE FirstMatching(_, _, _)
FirstMatching(strings, p, i) ==
    IF i > Len(strings) THEN None
    ELSE IF ReSearch(p, strings[i]) # None THEN Node(strings[i])
    ELSE FirstMatching(strings, p, i + 1)

\* a find() that searches the concatenated text of the tree as one string
SoupFindStringJoined(soup, p) ==
    IF ReSearch(p, Join(AllStrings(soup))) # None THEN Node(Join(AllStrings(soup))) ELSE None

\* soup.find(string=re.compile(pattern, re.I)): the first text node, in
\* document order, in which the pattern has a match; None when there is none
SoupFindString(soup, p) == FirstMatching(AllStrings(soup), p, 1)

(***************************************************************************)
(* The pattern tables of _extract_building_specific_data                   *)
(***************************************************************************)
\* [I2]
GradeCharsNoStar == {"I", "2"}

\* [I2*]
GradeChars == {"I", "2", "*"}

\* ([I2*]), one character
GradeTokenSingle == Rep(GradeChars, 1, 1)

\* ([I2*]+)
GradeToken == Rep(GradeChars, 1, -1)

\* Grade\s+([I2*]+)
GradeSpacePattern == Pattern(<<Lit("Grade"), Rep(Whitespace, 1, -1), GradeToken>>, 3, 3)
\* Grade\s*:\s*([I2*]+)
GradeColonPattern ==
    Pattern(<<Lit("Grade"), Rep(Whitespace, 0, -1), Lit(":"),
              Rep(Whitespace, 0, -1), GradeToken>>, 5, 5)
\* ([I2*]+)\s*Grade
TokenGradePattern == Pattern(<<GradeToken, Rep(Whitespace, 0, -1), Lit("Grade")>>, 1, 1)

grade_patterns == <<GradeSpacePattern, GradeColonPattern, TokenGradePattern>>

\* \s*[:\s]*(\d+) after a label
EntryTail == <<Rep(Whitespace, 0, -1), Rep({":"} \cup Whitespace, 0, -1), Rep(Digit, 1, -1)>>

\* List Entry\s*[:\s]*(\d+)
ListEntryPattern == Pattern(<<Lit("List Entry")>> \o EntryTail, 4, 4)
\* Entry\s*[:\s]*(\d+)
EntryPattern == Pattern(<<Lit("Entry")>> \o EntryTail, 4, 4)
\* (\d{6,})
BareNumberPattern == Pattern(<<Rep(Digit, 6, -1)>>, 1, 1)

\* the bare number tried first
entry_patterns_BareFirst == <<BareNumberPattern, ListEntryPattern, EntryPattern>>

entry_patterns == <<ListEntryPattern, EntryPattern, BareNumberPattern>>

\* [:\s]*([A-Z]{2}\s?\d{4}\s?\d{4}) after a label
GridRefTailFourDigits ==
    <<Rep({":"} \cup Whitespace, 0, -1),
      Rep(UpperAZ, 2, 2), Rep(Whitespace, 0, 1), Rep(Digit, 4, 4),
      Rep(Whitespace, 0, 1), Rep(Digit, 4, 4)>>

\* [:\s]*([A-Z]{2}\s?\d{4,6}\s?\d{4,6}) after a label
GridRefTail ==
    <<Rep({":"} \cup Whitespace, 0, -1),
      Rep(UpperAZ, 2, 2), Rep(Whitespace, 0, 1), Rep(Digit, 4, 6),
      Rep(Whitespace, 0, 1), Rep(Digit, 4, 6)>>

\* a label followed by its separator and the token, both inside group 1
CoordPatternWithSeparator(label) == Pattern(<<Lit(label)>> \o GridRefTail, 2, 7)

\* a label followed by the grid reference token, the token being group 1
CoordPattern(label) == Pattern(<<Lit(label)>> \o GridRefTail, 3, 7)

\* the "NGR" label tried first
coord_patterns_NgrFirst ==
    <<CoordPattern("NGR"), CoordPattern("National Grid Reference"),
      CoordPattern("Grid Reference")>>

coord_patterns ==
    <<CoordPattern("National Grid Reference"), CoordPattern("NGR"),
      CoordPattern("Grid Reference")>>

\* Mid C(\d) and its like: one digit captured
PeriodPrefixPatternOneDigit(label) == Pattern(<<Lit(label), Rep(Digit, 1, 1)>>, 2, 2)

\* Mid C(\d+) and its like
PeriodPrefixPattern(label) == Pattern(<<Lit(label), Rep(Digit, 1, -1)>>, 2, 2)
\* (\d+)th century and its like
PeriodSuffixPattern(label) == Pattern(<<Rep(Digit, 1, -1), Lit(label)>>, 1, 1)

\* "Late C" tried before "Early C"
period_patterns_LateFirst ==
    <<PeriodPrefixPattern("Mid C"), PeriodPrefixPattern("Late C"),
      PeriodPrefixPattern("Early C"), PeriodSuffixPattern("th century"),
      PeriodSuffixPattern("th-century")>>

period_patterns ==
    <<PeriodPrefixPattern("Mid C"), PeriodPrefixPattern("Early C"),
      PeriodPrefixPattern("Late C"), PeriodSuffixPattern("th century"),
      PeriodSuffixPattern("th-century")>>

architectural_keywords ==
    <<"semi-detached", "cottages", "coursed rubble", "stone", "tiled",
      "brick stacks", "mullioned", "casements", "chamfered", "beams",
      "planked doors", "recessed", "diagonally-set", "axial position",
      "timber", "slate", "thatch", "gable", "dormer", "bay window">>

\* len(text) > 100
MinParagraphLength == 100
\* keyword_count >= 3
KeywordThreshold == 3

(***************************************************************************)
(* _extract_building_specific_data, loop by loop.  A loop that meets an    *)
(* exception gives Raised(..) instead of a value.                          *)
(***************************************************************************)
\* a data dict with the six specified fields only
NewDataSixOnly ==
    [grade |-> "", list_entry |-> "", coordinates |-> "",
     architectural_details |-> "", materials |-> "", construction_period |-> ""]

\* a data dict whose coordinates default to a sentinel text
NewDataSentinel ==
    [grade |-> "", list_entry |-> "", list_date |-> "", description |-> "",
     history |-> "", architectural_details |-> "", reasons_for_listing |-> "",
     location |-> "", coordinates |-> "N/A", address |-> "", materials |-> "",
     construction_period |-> "", architectural_style |-> "",
     interior_features |-> "", exterior_features |-> ""]

\* the data dict as created at the top of the function
NewData ==
    [grade |-> "", list_entry |-> "", list_date |-> "", description |-> "",
     history |-> "", architectural_details |-> "", reasons_for_listing |-> "",
     location |-> "", coordinates |-> "", address |-> "", materials |-> "",
     construction_period |-> "", architectural_style |-> "",
     interior_features |-> "", exterior_features |-> ""]

Raised(kind) == [raised |-> kind]
IsRaised(v) == "raised" \in DOMAIN v

\* outcome of a pattern loop: the value assigned (if any) and the number of
\* patterns that were evaluated before the loop ended
Assigned(v, k) == [assigned |-> TRUE, value |-> v, tried |-> k]
NotAssigned(k) == [assigned |-> FALSE, value |-> "", tried |-> k]

\* for pattern in patterns:
\*     x_match = soup.find(string=re.compile(pattern, re.I))
\*     if x_match:
\*         match = re.search(pattern, x_match, re.I)
\*         if match:
\*             data[field] = match.group(1); break
\* re.search(pattern, x_match, re.I) on what find() gave: a TypeError when
\* that is None
SearchNode(p, found) ==
    IF found = None THEN Raised("TypeError") ELSE ReSearch(p, found.string)

\* data[field] = match.group(1): an AttributeError when match is None
AssignGroup1(match, k) ==
    IF match = None THEN Raised("AttributeError") ELSE Assigned(Group1(match), k)

\* the loop without its `if x_match:` test
RECURSIVE PatternLoopUnguarded(_, _, _)
PatternLoopUnguarded(soup, patterns, k) ==
    IF k > Len(patterns) THEN NotAssigned(k - 1)
    ELSE LET match == SearchNode(patterns[k], SoupFindString(soup, patterns[k]))
         IN  IF IsRaised(match) THEN match
             ELSE IF match # None THEN AssignGroup1(match, k)
             ELSE PatternLoopUnguarded(soup, patterns, k + 1)

\* the loop without its break: every pattern is evaluated, the last one
\* that matches sets the field
RECURSIVE PatternLoopNoBreak(_, _, _)
PatternLoopNoBreak(soup, patterns, k) ==
    IF k > Len(patterns) THEN NotAssigned(k - 1)
    ELSE LET later == PatternLoopNoBreak(soup, patterns, k + 1)
             found == SoupFindString(soup, patterns[k])
         IN  IF later.assigned THEN later
             ELSE IF found # None
             THEN Assigned(Group1(ReSearch(patterns[k], found.string)), Len(patterns))
             ELSE NotAssigned(Len(patterns))

RECURSIVE PatternLoop(_, _, _)
PatternLoop(soup, patterns, k) ==
    IF k > Len(patterns) THEN NotAssigned(k - 1)
    ELSE LET found == SoupFindString(soup, patterns[k])
         IN  IF found # None
             THEN LET match == SearchNode(patterns[k], found)
                  IN  IF IsRaised(match) THEN match
                      ELSE IF match # None THEN AssignGroup1(match, k)
                      ELSE PatternLoop(soup, patterns, k + 1)
             ELSE PatternLoop(soup, patterns, k + 1)

\* a count of the occurrences of the keywords, a keyword that occurs twice
\* counting twice
KeywordCountOccurrences(text) ==
    LET low == Lower(text)
    IN  Cardinality({<<k, i>> \in (1..Len(architectural_keywords)) \X (1..Len(low)) :
                        LET kw == Lower(architectural_keywords[k])
                        IN  i + Len(kw) - 1 <= Len(low) /\ SubSeq(low, i, i + Len(kw) - 1) = kw})

\* sum(1 for keyword in architectural_keywords if keyword.lower() in text.lower())
KeywordCount(text) ==
    LET low == Lower(text)
    IN  Cardinality({k \in 1..Len(architectural_keywords) :
                        Contains(low, Lower(architectural_keywords[k]))})

\* if trigger in text.lower(): data['materials'] += literal
AddMaterial(materials, low, trigger, literal) ==
    IF Contains(low, trigger) THEN materials \o literal ELSE materials

\* the four material checks with the timber check moved to the front
MaterialsTimberFirst(materials, text) ==
    LET low == Lower(text)
        m1 == AddMaterial(materials, low, "timber", "timber, ")
        m2 == AddMaterial(m1, low, "coursed rubble", "coursed rubble stone, ")
        m3 == AddMaterial(m2, low, "tiled", "tiled roof, ")
    IN  AddMaterial(m3, low, "brick", "brick, ")

\* the four material checks, in source order
Materials(materials, text) ==
    LET low == Lower(text)
        m1 == AddMaterial(materials, low, "coursed rubble", "coursed rubble stone, ")
        m2 == AddMaterial(m1, low, "tiled", "tiled roof, ")
        m3 == AddMaterial(m2, low, "brick", "brick, ")
    IN  AddMaterial(m3, low, "timber", "timber, ")

\* for pattern in period_patterns:
\*     match = re.search(pattern, text, re.I)
\*     if match: data['construction_period'] = match.group(1); break
RECURSIVE PeriodLoop(_, _, _)
PeriodLoop(text, patterns, k) ==
    IF k > Len(patterns) THEN NotAssigned(k - 1)
    ELSE LET match == ReSearch(patterns[k], text)
         IN  IF match # None THEN Assigned(Group1(match), k)
             ELSE PeriodLoop(text, patterns, k + 1)

\* a body that fills materials and construction_period but leaves
\* architectural_details alone
SelectParagraphNoDetails(data, text) ==
    LET period == PeriodLoop(text, period_patterns, 1)
    IN  [data EXCEPT !.materials = Materials(data.materials, text),
                     !.construction_period =
                         IF period.assigned THEN period.value ELSE @]

\* a body that also stores the paragraph as description
SelectParagraphWithDescription(data, text) ==
    LET period == PeriodLoop(text, period_patterns, 1)
    IN  [data EXCEPT !.architectural_details = text,
                     !.description = text,
                     !.materials = Materials(data.materials, text),
                     !.construction_period =
                         IF period.assigned THEN period.value ELSE @]

\* the body of `if keyword_count >= 3:` for the selected paragraph
SelectParagraph(data, text) ==
    LET period == PeriodLoop(text, period_patterns, 1)
    IN  [data EXCEPT !.architectural_details = text,
                     !.materials = Materials(data.materials, text),
                     !.construction_period =
                         IF period.assigned THEN period.value ELSE @]

\* the paragraph loop without its final break: every paragraph that is long
\* enough and has enough keywords is taken in turn
RECURSIVE ParagraphLoopNoBreak(_, _, _)
ParagraphLoopNoBreak(data, paras, i) ==
    IF i > Len(paras) THEN data
    ELSE LET text == Strip(GetText(paras[i]))
         IN  IF Len(text) > MinParagraphLength /\ KeywordCount(text) >= KeywordThreshold
             THEN ParagraphLoopNoBreak(SelectParagraph(data, text), paras, i + 1)
             ELSE ParagraphLoopNoBreak(data, paras, i + 1)

\* the paragraph loop without its length test
RECURSIVE ParagraphLoopNoLengthCheck(_, _, _)
ParagraphLoopNoLengthCheck(data, paras, i) ==
    IF i > Len(paras) THEN data
    ELSE LET text == Strip(GetText(paras[i]))
         IN  IF KeywordCount(text) >= KeywordThreshold
             THEN SelectParagraph(data, text)
             ELSE ParagraphLoopNoLengthCheck(data, paras, i + 1)

\* the paragraph loop taking a paragraph with one keyword less
RECURSIVE ParagraphLoopOneKeywordLess(_, _, _)
ParagraphLoopOneKeywordLess(data, paras, i) ==
    IF i > Len(paras) THEN data
    ELSE LET text == Strip(GetText(paras[i]))
         IN  IF Len(text) > MinParagraphLength /\ KeywordCount(text) >= KeywordThreshold - 1
             THEN SelectParagraph(data, text)
             ELSE ParagraphLoopOneKeywordLess(data, paras, i + 1)

\* for para in soup.find_all('p'): ... with its break at the first paragraph
\* that is long enough and has enough keywords
RECURSIVE ParagraphLoop(_, _, _)
ParagraphLoop(data, paras, i) ==
    IF i > Len(paras) THEN data
    ELSE LET text == Strip(GetText(paras[i]))
         IN  IF Len(text) > MinParagraphLength /\ KeywordCount(text) >= KeywordThreshold
             THEN SelectParagraph(data, text)
             ELSE ParagraphLoop(data, paras, i + 1)

(***************************************************************************)
(* Input documents                                                         *)
(***************************************************************************)
\* most elements of one document
MaxElements == 2

\* The elements documents are built from: headings and paragraphs of a
\* listing page, some with their text split over several text nodes (inline
\* markup inside the element).  One pool per field, and one of whole pages.
GradePool ==
    { Element("p",  <<"Listed Grade II* in 1952">>),
      Element("p",  <<"Listed Grade ", "II*">>),
      Element("h2", <<"2* Grade, formerly Grade I">>),
      Element("p",  <<"The grade is under review">>),
      Element("h2", <<"Grade: II">>),
      Element("p",  <<"A II grade house">>),
      Element("h1", <<"Mill House II">>) }

EntryPool ==
    { Element("h2", <<"List Entry: 012345">>),
      Element("p",  <<"Entry: 123456">>),
      Element("p",  <<"File 7654321">>),
      Element("h2", <<"List Entry Number: ", "1000123">>),
      Element("p",  <<"Entry 42 of file 00998877">>) }

CoordPool ==
    { Element("p",  <<"NGR: ST 12345 67890">>),
      Element("h2", <<"National Grid Reference: su1234 5678">>),
      Element("p",  <<"NGR: ", "ST 12345 67890">>),
      Element("p",  <<"NGR: ST 12345 678901">>),
      Element("p",  <<"Grid Reference: TQ 1234 5678">>),
      Element("p",  <<"Grid Reference:\tTQ1234\n5678">>),
      Element("p",  <<"At the west end of the village">>) }

ParagraphPool ==
    { Element("p",  <<"Pair of houses, Mid C18, ",
                      "of coursed rubble with a tiled roof and mullioned windows to the front and rear sides.">>),
      Element("p",  <<"House, Mid C18, of coursed rubble with a tiled roof and mullioned windows. Rear wing added later on.">>),
      Element("p",  <<"Farmhouse of the 19th century. Red brick and timber with stone dressings; the stone porch and steps are later.">>),
      Element("p",  <<" Barn. Late C17 with an Early C16 core. TIMBER frame with brick infill under a thatch roof, one gable rebuilt.\n">>),
      Element("p",  <<"Row of cottages, refronted in the 19th-century on a 17th century core. Stone with slate roofs; casements renewed.">>),
      Element("p",  <<"Mid C18. Coursed rubble, tiled roof, mullioned windows.">>) }

PagePool ==
    { Element("div", <<"Heritage Category: Listed Building", "Grade: II*",
                       "List Entry Number: 1000123">>),
      Element("p",  <<"National Grid Reference: ST 12345 67890">>),
      Element("p",  <<"Grade II house, Early C19. Coursed rubble with brick stacks, tiled roof and chamfered beams; entry by planked doors.">>),
      Element("p",  <<"A plain house of no special interest">>) }

ElementPools == {GradePool, EntryPool, CoordPool, ParagraphPool, PagePool}

\* the documents of at most n elements of one pool
RECURSIVE DocsUpTo(_, _)
DocsUpTo(pool, n) ==
    IF n = 0 THEN {<<>>}
    ELSE LET shorter == DocsUpTo(pool, n - 1)
         IN  shorter \cup {Append(d, e) : d \in shorter, e \in pool}

Docs == UNION {DocsUpTo(pool, MaxElements) : pool \in ElementPools}

(***************************************************************************)
(* Calls of the extractor.  Each caller runs one call at a time; a call    *)
(* goes through the four loops of the function in order.  The data dict    *)
(* of a call is an object on the heap, named by the local variable data.   *)
(***************************************************************************)
Callers == {"c1", "c2"}
Scrapers == {"s1", "s2"}
ObjIds == 1..Cardinality(Callers)

VARIABLES
    frame,     \* per caller: where its call stands and its local variables
    heap,      \* the dict objects
    seen,      \* the (document, record) pairs returned so far
    objects,   \* the scraper objects: their attributes driver and headless
    drivers,   \* the browser drivers created so far, each with its quit() calls
    visit,     \* the running scrape_building / scrape_with_tabs call
    content,   \* the last call of _extract_tab_content: arguments and result
    legacy,    \* a run of the legacy and the canonical extractor on one document
    progress,  \* the rows of table scraping_progress
    buildings, \* the record offsets stored in table buildings
    metadata,  \* the rows of table api_metadata
    run        \* the running scrape_all call

vars == <<frame, heap, seen, objects, drivers, visit, content, legacy, progress, buildings, metadata, run>>

\* the state outside the calls of _extract_building_specific_data, apart
\* from the scraper objects
elsewhere == <<drivers, visit, content, legacy, progress, buildings, metadata, run>>

Idle == [pc |-> "idle", self |-> "", soup |-> <<>>, data |-> 0,
         tried |-> [grade |-> 0, list_entry |-> 0, coordinates |-> 0]]

\* a dict shared by all calls (as a class attribute would be)
SharedDict(fr) == CHOOSE i \in ObjIds : \A j \in ObjIds : i <= j

\* data = {...}: a dict object no running call refers to
NewDict(fr) == CHOOSE i \in ObjIds : \A c \in Callers : fr[c].data # i

\* {}: a dict without keys
EmptyDict == [k \in {} |-> ""]

\* HistoricEnglandScraper(): headless defaults to True, driver is None (0)
NewScraper == [headless |-> TRUE, driver |-> 0]

\* no scrape_building / scrape_with_tabs call is running; none was made
NoVisit ==
    [pc |-> "idle", method |-> "", self |-> "", found_tabs |-> <<>>, tab |-> 1,
     all_content |-> EmptyDict, result |-> None, calls |-> 0]

\* _extract_tab_content was not called yet
NoContent == [soup |-> <<>>, tab_name |-> "", result |-> None]

\* neither extractor was run yet
NoComparison == [pc |-> "idle", soup |-> <<>>, old |-> None, new |-> None]

\* no scrape_all call is running; none was made.  started (the ids of the
\* batches this call has started), interrupted, runs (the calls made) and
\* restarts (the calls without resume made on a table that had rows) record
\* the history; the other fields are the locals of scrape_all
NoRun ==
    [pc |-> "idle", resume |-> FALSE, total_count |-> 0, start_offset |-> 0,
     total_batches |-> 0, batch_num |-> 0, batch_start |-> 0, batch_end |-> 0,
     batch_id |-> 0, buildings |-> <<>>, success_count |-> 0, error_count |-> 0,
     result |-> None, started |-> {}, interrupted |-> FALSE, runs |-> 0, restarts |-> 0]

Init ==
    /\ frame = [c \in Callers |-> Idle]
    /\ heap = [i \in ObjIds |-> NewData]
    /\ seen = {}
    /\ objects = [s \in Scrapers |-> NewScraper]
    /\ drivers = <<>>
    /\ visit = NoVisit
    /\ content = NoContent
    /\ legacy = NoComparison
    /\ progress = <<>>
    /\ buildings = {}
    /\ metadata = <<>>
    /\ run = NoRun

\* self._extract_building_specific_data(soup) is entered
Call(c, s, d) ==
    /\ frame[c].pc = "idle"
    /\ LET ref == NewDict(frame)
       IN  /\ heap' = [heap EXCEPT ![ref] = NewData]
           /\ frame' = [frame EXCEPT ![c] = [Idle EXCEPT !.pc = "grade", !.self = s,
                                                          !.soup = d, !.data = ref]]
    /\ UNCHANGED <<seen, objects, elsewhere>>

\* the text without its leading zeros, as int() followed by str() gives it
RECURSIVE StripLeadingZeros(_)
StripLeadingZeros(s) ==
    IF Len(s) > 1 /\ CharAt(s, 1) = "0" THEN StripLeadingZeros(SubSeq(s, 2, Len(s))) ELSE s

\* an assignment that stores the capture as a number
AssignAsNumber(data, field, r) ==
    [data EXCEPT ![field] = IF r.assigned THEN StripLeadingZeros(r.value) ELSE @]

\* data[field] = match.group(1), where the loop got that far
Assign(data, field, r) == [data EXCEPT ![field] = IF r.assigned THEN r.value ELSE @]

\* one of the three `for pattern in ..._patterns` loops over the whole tree
FieldLoop(c, at, next, field, patterns) ==
    /\ frame[c].pc = at
    /\ LET r == PatternLoop(frame[c].soup, patterns, 1)
       IN  IF IsRaised(r)
           THEN /\ frame' = [frame EXCEPT ![c].pc = "raised"]
                /\ UNCHANGED heap
           ELSE /\ heap' = [heap EXCEPT ![frame[c].data] = Assign(@, field, r)]
                /\ frame' = [frame EXCEPT ![c].pc = next, ![c].tried[field] = r.tried]
    /\ UNCHANGED <<seen, objects, elsewhere>>

GradeLoop(c) == FieldLoop(c, "grade", "entry", "grade", grade_patterns)
EntryLoop(c) == FieldLoop(c, "entry", "coord", "list_entry", entry_patterns)
CoordLoop(c) == FieldLoop(c, "coord", "paras", "coordinates", coord_patterns)

\* the paragraph loop and `return data`
ParagraphsAndReturn(c) ==
    /\ frame[c].pc = "paras"
    /\ LET ref == frame[c].data
           data == ParagraphLoop(heap[ref], FindAllP(frame[c].soup), 1)
       IN  /\ heap' = [heap EXCEPT ![ref] = data]
           /\ seen' = seen \cup {<<frame[c].soup, data>>}
    /\ frame' = [frame EXCEPT ![c].pc = "done"]
    /\ UNCHANGED <<objects, elsewhere>>

\* the caller has used the record and lets go of it
Drop(c) ==
    /\ frame[c].pc = "done"
    /\ heap' = [heap EXCEPT ![frame[c].data] = NewData]
    /\ frame' = [frame EXCEPT ![c] = Idle]
    /\ UNCHANGED <<seen, objects, elsewhere>>

\* One call on one document
Next ==
    \/ \E d \in Docs : Call("c1", "s1", d)
    \/ GradeLoop("c1")
    \/ EntryLoop("c1")
    \/ CoordLoop("c1")
    \/ ParagraphsAndReturn("c1")

Spec == Init /\ [][Next]_vars

\* the returned record of a finished call
Done(c) == frame[c].pc = "done"
Record(c) == heap[frame[c].data]

(***************************************************************************)
(* Several callers, each calling the extractor again and again, on one of  *)
(* two scraper objects                                                     *)
(***************************************************************************)
HeaderDoc ==
    << Element("h2", <<"Grade: II">>),
       Element("p",  <<"Entry: 123456", "NGR: ST 12345 67890">>) >>

BarnDoc ==
    << Element("h2", <<"List Entry: 012345">>),
       Element("p",  <<" Barn. Late C17 with an Early C16 core. TIMBER frame with brick infill under a thatch roof, one gable rebuilt.\n">>) >>

ConcDocs == {HeaderDoc, BarnDoc}

NextConc ==
    \E c \in Callers :
        \/ \E s \in Scrapers, d \in ConcDocs : Call(c, s, d)
        \/ GradeLoop(c)
        \/ EntryLoop(c)
        \/ CoordLoop(c)
        \/ ParagraphsAndReturn(c)
        \/ Drop(c)

SpecConc == Init /\ [][NextConc]_vars

\* The data dict of a call that runs alone on soup, as it stands when the
\* call is at pc
RunAlone(soup, pc) ==
    LET d1 == Assign(NewData, "grade", PatternLoop(soup, grade_patterns, 1))
        d2 == Assign(d1, "list_entry", PatternLoop(soup, entry_patterns, 1))
        d3 == Assign(d2, "coordinates", PatternLoop(soup, coord_patterns, 1))
    IN  CASE pc = "grade" -> NewData
          [] pc = "entry" -> d1
          [] pc = "coord" -> d2
          [] pc = "paras" -> d3
          [] pc = "done"  -> ParagraphLoop(d3, FindAllP(soup), 1)

(***************************************************************************)
(* The earlier copy of the extractor (src/detailed_scraper.py,             *)
(* extract_building_specific_data), run beside the one of the scraper      *)
(* class on one document                                                   *)
(***************************************************************************)
\* the data dict of the earlier copy
LegacyNewData ==
    [grade |-> "", list_entry |-> "", list_date |-> "", description |-> "",
     history |-> "", architectural_details |-> "", reasons_for_listing |-> "",
     location |-> "", coordinates |-> "", address |-> ""]

legacy_grade_patterns == <<GradeSpacePattern, GradeColonPattern, TokenGradePattern>>
legacy_entry_patterns == <<ListEntryPattern, EntryPattern, BareNumberPattern>>
legacy_coord_patterns ==
    <<CoordPattern("National Grid Reference"), CoordPattern("NGR"),
      CoordPattern("Grid Reference")>>

\* a keyword table with two terms the scraper class does not have
legacy_architectural_keywords_Extra ==
    <<"semi-detached", "cottages", "coursed rubble", "stone", "tiled",
      "brick stacks", "mullioned", "casements", "chamfered", "beams",
      "planked doors", "recessed", "diagonally-set", "axial position",
      "brick", "porch">>

legacy_architectural_keywords ==
    <<"semi-detached", "cottages", "coursed rubble", "stone", "tiled",
      "brick stacks", "mullioned", "casements", "chamfered", "beams",
      "planked doors", "recessed", "diagonally-set", "axial position">>

\* sum(1 for keyword in architectural_keywords if keyword.lower() in text.lower())
LegacyKeywordCount(text) ==
    LET low == Lower(text)
    IN  Cardinality({k \in 1..Len(legacy_architectural_keywords) :
                        Contains(low, Lower(legacy_architectural_keywords[k]))})

\* the paragraph loop of the earlier copy: architectural_details only
RECURSIVE LegacyParagraphLoop(_, _, _)
LegacyParagraphLoop(data, paras, i) ==
    IF i > Len(paras) THEN data
    ELSE LET text == Strip(GetText(paras[i]))
         IN  IF Len(text) > 100 /\ LegacyKeywordCount(text) >= 3
             THEN [data EXCEPT !.architectural_details = text]
             ELSE LegacyParagraphLoop(data, paras, i + 1)

\* extract_building_specific_data(soup) of src/detailed_scraper.py
LegacyExtract(soup) ==
    LET d1 == Assign(LegacyNewData, "grade", PatternLoop(soup, legacy_grade_patterns, 1))
        d2 == Assign(d1, "list_entry", PatternLoop(soup, legacy_entry_patterns, 1))
        d3 == Assign(d2, "coordinates", PatternLoop(soup, legacy_coord_patterns, 1))
    IN  LegacyParagraphLoop(d3, FindAllP(soup), 1)

\* HistoricEnglandScraper._extract_building_specific_data(soup), start to
\* return
Extract(soup) == RunAlone(soup, "done")

\* the earlier copy is run on a document
RunLegacy(d) ==
    /\ legacy.pc = "idle"
    /\ legacy' = [legacy EXCEPT !.pc = "legacy", !.soup = d, !.old = LegacyExtract(d)]
    /\ UNCHANGED <<frame, heap, seen, objects, drivers, visit, content, progress, buildings, metadata, run>>

\* the extractor of the scraper class is run on the same document
RunCanonical ==
    /\ legacy.pc = "legacy"
    /\ legacy' = [legacy EXCEPT !.pc = "both", !.new = Extract(legacy.soup)]
    /\ UNCHANGED <<frame, heap, seen, objects, drivers, visit, content, progress, buildings, metadata, run>>

NextLegacy ==
    \/ \E d \in Docs : RunLegacy(d)
    \/ RunCanonical

SpecLegacy == Init /\ [][NextLegacy]_vars

(***************************************************************************)
(* _extract_tab_content: what is collected from the page of one tab        *)
(***************************************************************************)
\* an <img> element with its attributes
Image(src, alt) == [tag |-> "img", strings |-> <<>>, src |-> src, alt |-> alt]

\* an <a> element with its href attribute and its text nodes
Link(href, strings) == [tag |-> "a", strings |-> strings, href |-> href]

\* tag.get(attr, '')
Get(el, attr) == IF attr \in DOMAIN el THEN el[attr] ELSE ""

\* str.startswith
StartsWith(s, prefix) == Len(s) >= Len(prefix) /\ SubSeq(s, 1, Len(prefix)) = prefix

\* if url.startswith('/'): url = 'https://historicengland.org.uk' + url
Absolute(url) == IF StartsWith(url, "/") THEN "https://historicengland.org.uk" \o url ELSE url

\* headings: find_all(['h1', ..., 'h6']) with text that is not about cookies
Headings(soup) ==
    LET keep(el) == /\ el.tag \in {"h1", "h2", "h3", "h4", "h5", "h6"}
                    /\ Strip(GetText(el)) # ""
                    /\ ~Contains(Lower(Strip(GetText(el))), "cookie")
        item(el) == [level |-> el.tag, text |-> Strip(GetText(el))]
        kept == SelectSeq(soup, keep)
    IN  [i \in 1..Len(kept) |-> item(kept[i])]

\* paragraphs: find_all('p') with text of more than 20 characters that is
\* not about cookies
Paragraphs(soup) ==
    LET keep(el) == /\ el.tag = "p"
                    /\ Strip(GetText(el)) # ""
                    /\ Len(Strip(GetText(el))) > 20
                    /\ ~Contains(Lower(Strip(GetText(el))), "cookie")
        item(el) == [text |-> Strip(GetText(el)), length |-> Len(Strip(GetText(el)))]
        kept == SelectSeq(soup, keep)
    IN  [i \in 1..Len(kept) |-> item(kept[i])]

\* images: find_all('img') with a src
Images(soup) ==
    LET keep(el) == el.tag = "img" /\ Get(el, "src") # ""
        item(el) == [src |-> Absolute(Get(el, "src")), alt |-> Get(el, "alt")]
        kept == SelectSeq(soup, keep)
    IN  [i \in 1..Len(kept) |-> item(kept[i])]

\* links: find_all('a', href=True) with a href and a text
Links(soup) ==
    LET keep(el) == /\ el.tag = "a" /\ "href" \in DOMAIN el
                    /\ Get(el, "href") # "" /\ Strip(GetText(el)) # ""
        item(el) == [href |-> Absolute(Get(el, "href")), text |-> Strip(GetText(el))]
        kept == SelectSeq(soup, keep)
    IN  [i \in 1..Len(kept) |-> item(kept[i])]

\* main_content = soup.find('main') or soup.find('body'); its stripped text
TextContent(soup) ==
    LET mains == SelectSeq(soup, LAMBDA el : el.tag = "main")
        bodies == SelectSeq(soup, LAMBDA el : el.tag = "body")
    IN  IF mains # <<>> THEN Strip(GetText(mains[1]))
        ELSE IF bodies # <<>> THEN Strip(GetText(bodies[1]))
        ELSE ""

\* the function with its tab name test on the name as given, not lowered
ExtractTabContentCaseSensitive(soup, tab_name) ==
    [tab_name |-> tab_name, headings |-> Headings(soup), paragraphs |-> Paragraphs(soup),
     images |-> Images(soup), links |-> Links(soup), text_content |-> TextContent(soup),
     specific_data |->
         IF Contains(tab_name, "official") \/ Contains(tab_name, "list entry")
         THEN Extract(soup) ELSE EmptyDict]

\* _extract_tab_content(soup, tab_name)
ExtractTabContent(soup, tab_name) ==
    [tab_name |-> tab_name, headings |-> Headings(soup), paragraphs |-> Paragraphs(soup),
     images |-> Images(soup), links |-> Links(soup), text_content |-> TextContent(soup),
     specific_data |->
         IF Contains(Lower(tab_name), "official") \/ Contains(Lower(tab_name), "list entry")
         THEN Extract(soup) ELSE EmptyDict]

\* the elements the pages of a tab are built from
TabPool ==
    { Element("h1", <<"Mill House">>),
      Element("h2", <<" Cookie settings ">>),
      Element("p",  <<"Grade II listed, ", "List Entry: 1000123">>),
      Element("p",  <<"Too short to keep">>),
      Image("/images/mill.jpg", "The mill"),
      Link("/list-entry/1000123", <<" Official list entry ">>),
      Element("main", <<" Mill House, Grade II\n">>) }

TabDocs == DocsUpTo(TabPool, MaxElements)

\* tab names: the ones the scraper passes, and others
TabNames ==
    {"Overview", "Official List Entry", "Comments", "Photos", "LIST ENTRY", "Unofficial notes"}

\* self._extract_tab_content(soup, tab_name) is called and returns
TabContent(d, name) ==
    /\ content = NoContent
    /\ content' = [soup |-> d, tab_name |-> name, result |-> ExtractTabContent(d, name)]
    /\ UNCHANGED <<frame, heap, seen, objects, drivers, visit, legacy, progress, buildings, metadata, run>>

NextTab == \E d \in TabDocs, name \in TabNames : TabContent(d, name)

SpecTab == Init /\ [][NextTab]_vars

(***************************************************************************)
(* scrape_building and scrape_with_tabs: the browser driver and the tabs   *)
(***************************************************************************)
\* calls of scrape_building / scrape_with_tabs made in one behaviour
MaxCalls == 2

\* _extract_content(soup, building_name)
ExtractContent(soup, building_name) ==
    [building_name |-> building_name, headings |-> Headings(soup),
     paragraphs |-> Paragraphs(soup), images |-> Images(soup), links |-> Links(soup),
     text_content |-> TextContent(soup), specific_data |-> Extract(soup)]

\* tab_texts = ['Official List Entry', 'Comments', 'Photos']
tab_texts == <<"Official List Entry", "Comments", "Photos">>

\* the pages driver.page_source can show
BrowserPages ==
    { <<Element("h1", <<"Mill House">>)>>,
      <<Element("p", <<"Grade II listed, ", "List Entry: 1000123">>)>> }

\* all_content as scrape_with_tabs creates it
NewAllContent ==
    [overview |-> EmptyDict, official_list_entry |-> EmptyDict, comments_photos |-> EmptyDict,
     tabs_found |-> <<>>, tabs_clicked |-> <<>>]

\* "Store content by tab type"
StoreByType(all_content, text, tab_content) ==
    IF Contains(Lower(text), "official") \/ Contains(Lower(text), "list entry")
    THEN [all_content EXCEPT !.official_list_entry = tab_content]
    ELSE IF Contains(Lower(text), "comment") \/ Contains(Lower(text), "photo")
    THEN [all_content EXCEPT !.comments_photos = tab_content]
    ELSE all_content

\* a successful click: the tab's content is extracted, the text is appended
\* to tabs_clicked and the content stored
Clicked(all_content, text, soup) ==
    StoreByType([all_content EXCEPT !.tabs_clicked = Append(@, text)],
                text, ExtractTabContent(soup, text))

\* the content scrape_with_tabs returns (url, scraped_at, final_html and
\* the timings are left out)
TabsResult(all_content) ==
    [tabs_processed |-> Len(all_content.tabs_clicked), tab_content |-> all_content]

\* driver.quit() on driver number n
Quit(n) == [drivers EXCEPT ![n].quits = @ + 1]

\* finally: if self.driver: self.driver.quit()
QuitIfDriver ==
    IF objects[visit.self].driver # 0
    THEN /\ drivers' = Quit(objects[visit.self].driver)
         /\ UNCHANGED objects
    ELSE UNCHANGED <<drivers, objects>>

\* scrape_building(url) or scrape_with_tabs(url) is called on a scraper
ScrapeCall(self, method) ==
    /\ visit.pc \in {"idle", "returned"}
    /\ visit.calls < MaxCalls
    /\ visit' = [NoVisit EXCEPT !.pc = "setup", !.method = method, !.self = self,
                                !.calls = visit.calls + 1]
    /\ UNCHANGED <<frame, heap, seen, objects, drivers, content, legacy, progress, buildings, metadata, run>>

\* _setup_driver: webdriver.Chrome raises before self.driver is assigned
\* ("no_driver"), execute_script raises after it ("no_script"), or both
\* succeed ("ok"); scrape_* returns None when it returns False
SetupDriver(outcome) ==
    /\ visit.pc = "setup"
    /\ IF outcome = "no_driver"
       THEN UNCHANGED <<drivers, objects>>
       ELSE /\ drivers' = Append(drivers, [quits |-> 0])
            /\ objects' = [objects EXCEPT ![visit.self].driver = Len(drivers) + 1]
    /\ visit' = [visit EXCEPT !.pc = IF outcome = "ok" THEN "load" ELSE "finally"]
    /\ UNCHANGED <<frame, heap, seen, content, legacy, progress, buildings, metadata, run>>

\* self.driver.get(url), the wait for body and the cookie banner; an
\* exception of get goes to the except clause
LoadPage(ok) ==
    /\ visit.pc = "load"
    /\ visit' = [visit EXCEPT !.pc = IF ~ok THEN "finally"
                                     ELSE IF visit.method = "scrape_building" THEN "scrape"
                                     ELSE "overview"]
    /\ UNCHANGED <<frame, heap, seen, objects, drivers, content, legacy, progress, buildings, metadata, run>>

\* scrape_building: page_source is parsed and _extract_content called
ScrapeContent(soup, ok) ==
    /\ visit.pc = "scrape"
    /\ visit' = [visit EXCEPT !.pc = "finally",
                              !.result = IF ok THEN ExtractContent(soup, "") ELSE None]
    /\ UNCHANGED <<frame, heap, seen, objects, drivers, content, legacy, progress, buildings, metadata, run>>

\* scrape_with_tabs: all_content is created and the initial page extracted
\* as the Overview tab
OverviewContent(soup, ok) ==
    /\ visit.pc = "overview"
    /\ visit' = IF ok
                THEN [visit EXCEPT !.pc = "search",
                          !.all_content = [NewAllContent EXCEPT
                              !.overview = ExtractTabContent(soup, "Overview")]]
                ELSE [visit EXCEPT !.pc = "finally"]
    /\ UNCHANGED <<frame, heap, seen, objects, drivers, content, legacy, progress, buildings, metadata, run>>

\* the search loop over tab_texts: shown are the texts for which a displayed
\* and enabled element is found; for the others none is found or the search
\* raises, and the loop continues; all_content is not assigned to
FindTabs(shown) ==
    /\ visit.pc = "search"
    /\ LET found_tabs == SelectSeq(tab_texts, LAMBDA text : text \in shown)
       IN  visit' = [visit EXCEPT !.pc = "click", !.tab = 1, !.found_tabs = found_tabs]
    /\ UNCHANGED <<frame, heap, seen, objects, drivers, content, legacy, progress, buildings, metadata, run>>

\* one round of the click loop: the click and the extraction succeed, or an
\* exception skips to the next tab
ClickTab(soup, ok) ==
    /\ visit.pc = "click"
    /\ visit.tab <= Len(visit.found_tabs)
    /\ visit' = [visit EXCEPT !.tab = @ + 1,
                     !.all_content = IF ok THEN Clicked(@, visit.found_tabs[visit.tab], soup)
                                     ELSE @]
    /\ UNCHANGED <<frame, heap, seen, objects, drivers, content, legacy, progress, buildings, metadata, run>>

\* after the click loop: final_html = page_source, the content is built and
\* returned; an exception of page_source goes to the except clause
FinalContent(ok) ==
    /\ visit.pc = "click"
    /\ visit.tab > Len(visit.found_tabs)
    /\ visit' = [visit EXCEPT !.pc = "finally",
                     !.result = IF ok THEN TabsResult(visit.all_content) ELSE None]
    /\ UNCHANGED <<frame, heap, seen, objects, drivers, content, legacy, progress, buildings, metadata, run>>

\* the finally clause of both methods, and the return to the caller
Finally ==
    /\ visit.pc = "finally"
    /\ QuitIfDriver
    /\ visit' = [visit EXCEPT !.pc = "returned"]
    /\ UNCHANGED <<frame, heap, seen, content, legacy, progress, buildings, metadata, run>>

NextBrowser ==
    \/ \E self \in Scrapers, method \in {"scrape_building", "scrape_with_tabs"} :
           ScrapeCall(self, method)
    \/ \E outcome \in {"no_driver", "no_script", "ok"} : SetupDriver(outcome)
    \/ \E ok \in BOOLEAN : LoadPage(ok)
    \/ \E soup \in BrowserPages, ok \in BOOLEAN : ScrapeContent(soup, ok)
    \/ \E soup \in BrowserPages, ok \in BOOLEAN : OverviewContent(soup, ok)
    \/ \E shown \in SUBSET {tab_texts[i] : i \in DOMAIN tab_texts} : FindTabs(shown)
    \/ \E soup \in BrowserPages, ok \in BOOLEAN : ClickTab(soup, ok)
    \/ \E ok \in BOOLEAN : FinalContent(ok)
    \/ Finally

SpecBrowser == Init /\ [][NextBrowser]_vars

(***************************************************************************)
(* database_scraper.py: scrape_all and the progress table                  *)
(***************************************************************************)
\* the count the API reports
TotalCount == 5

\* self.batch_size
BatchSize == 2

\* calls of scrape_all made in one behaviour
MaxRuns == 2

Min(a, b) == IF a <= b THEN a ELSE b

\* the ids of the rows of scraping_progress with status 'completed'
Completed(rows) == {i \in DOMAIN rows : rows[i].status = "completed"}

\* get_last_processed_offset: SELECT MAX(batch_end) ... WHERE status =
\* 'completed'; 0 when there is none
get_last_processed_offset(rows) ==
    LET ends == {rows[i].batch_end : i \in Completed(rows)}
    IN  IF ends = {} THEN 0 ELSE CHOOSE m \in ends : \A e \in ends : e <= m

\* start_batch: a new row with status 'in_progress'; its id is the new length
start_batch(rows, batch_start, batch_end) ==
    Append(rows, [batch_start |-> batch_start, batch_end |-> batch_end,
                  records_processed |-> 0, success_count |-> 0, error_count |-> 0,
                  status |-> "in_progress"])

\* complete_batch: UPDATE ... SET ... status = 'completed' WHERE id = :batch_id
complete_batch(rows, batch_id, records_processed, success_count, error_count) ==
    [rows EXCEPT ![batch_id] =
        [@ EXCEPT !.records_processed = records_processed, !.success_count = success_count,
                  !.error_count = error_count, !.status = "completed"]]

\* update_metadata: a new row of api_metadata
update_metadata(rows, total_count, batch_size, status) ==
    Append(rows, [total_count |-> total_count, batch_size |-> batch_size, status |-> status])

\* fetch_batch(offset, limit): the records from offset on, at most limit of
\* them, each named by its offset; [] when the request fails or the answer
\* has no features
fetch_batch(offset, limit, ok) ==
    IF ok THEN [i \in 1..Min(limit, TotalCount - offset) |-> offset + i - 1] ELSE <<>>

\* the no-data path without its complete_batch
NoDataLeftOpen(rows, batch_id) == rows

\* the no-data path: self.db.complete_batch(batch_id, 0, 0, 1)
NoData(rows, batch_id) == complete_batch(rows, batch_id, 0, 0, 1)

\* scrape_all(resume) up to the loop: count is what get_total_count returns
\* (0 stands for None and for a count of 0)
ScrapeAll(resume, count) ==
    /\ run.pc \in {"idle", "returned"}
    /\ run.runs < MaxRuns
    /\ LET start_offset == IF resume THEN get_last_processed_offset(progress) ELSE 0
           called == [NoRun EXCEPT !.resume = resume, !.runs = run.runs + 1,
                          !.restarts = run.restarts +
                                       (IF ~resume /\ progress # <<>> THEN 1 ELSE 0)]
       IN  IF count = 0
           THEN /\ run' = [called EXCEPT !.pc = "returned", !.result = FALSE]
                /\ UNCHANGED metadata
           ELSE /\ metadata' = update_metadata(metadata, count, BatchSize, "in_progress")
                /\ run' = [called EXCEPT !.pc = "loop", !.total_count = count,
                               !.start_offset = start_offset,
                               !.total_batches =
                                   (count - start_offset + BatchSize - 1) \div BatchSize]
    /\ UNCHANGED <<frame, heap, seen, objects, drivers, visit, content, legacy,
                   progress, buildings>>

\* the head of one round of the loop: batch_start, batch_end, start_batch
StartBatch ==
    /\ run.pc = "loop"
    /\ run.batch_num < run.total_batches
    /\ LET batch_start == run.start_offset + run.batch_num * BatchSize
           batch_end == Min(batch_start + BatchSize - 1, run.total_count - 1)
       IN  /\ progress' = start_batch(progress, batch_start, batch_end)
           /\ run' = [run EXCEPT !.pc = "fetch", !.batch_start = batch_start,
                          !.batch_end = batch_end, !.batch_id = Len(progress) + 1,
                          !.started = @ \cup {Len(progress) + 1}]
    /\ UNCHANGED <<frame, heap, seen, objects, drivers, visit, content, legacy,
                   buildings, metadata>>

\* fetch_batch and the test of its result: without data the batch is
\* completed with one error and the loop continues
FetchBatch(ok) ==
    /\ run.pc = "fetch"
    /\ LET fetched == fetch_batch(run.batch_start, BatchSize, ok)
       IN  IF fetched = <<>>
           THEN /\ progress' = NoData(progress, run.batch_id)
                /\ run' = [run EXCEPT !.pc = "loop", !.error_count = @ + 1,
                               !.batch_num = @ + 1]
           ELSE /\ run' = [run EXCEPT !.pc = "insert", !.buildings = fetched]
                /\ UNCHANGED progress
    /\ UNCHANGED <<frame, heap, seen, objects, drivers, visit, content, legacy,
                   buildings, metadata>>

\* the insert loop and complete_batch: insert_building returns False for
\* the records in failed
InsertBuildings(failed) ==
    /\ run.pc = "insert"
    /\ LET fetched == {run.buildings[i] : i \in DOMAIN run.buildings}
           stored == fetched \ failed
           batch_success == Cardinality(stored)
           batch_errors == Cardinality(fetched \cap failed)
       IN  /\ buildings' = buildings \cup stored
           /\ progress' = complete_batch(progress, run.batch_id, Len(run.buildings),
                                         batch_success, batch_errors)
           /\ run' = [run EXCEPT !.pc = "loop", !.buildings = <<>>,
                          !.success_count = @ + batch_success,
                          !.error_count = @ + batch_errors, !.batch_num = @ + 1]
    /\ UNCHANGED <<frame, heap, seen, objects, drivers, visit, content, legacy, metadata>>

\* after the loop: the final metadata row and return success_count > 0
FinishRun ==
    /\ run.pc = "loop"
    /\ run.batch_num >= run.total_batches
    /\ metadata' = update_metadata(metadata, run.total_count, BatchSize, "completed")
    /\ run' = [run EXCEPT !.pc = "returned", !.result = (run.success_count > 0)]
    /\ UNCHANGED <<frame, heap, seen, objects, drivers, visit, content, legacy,
                   progress, buildings>>

\* KeyboardInterrupt, or an exception of a database call, leaves scrape_all
\* and is caught in main
Interrupt ==
    /\ run.pc \in {"loop", "fetch", "insert"}
    /\ run' = [run EXCEPT !.pc = "returned", !.interrupted = TRUE]
    /\ UNCHANGED <<frame, heap, seen, objects, drivers, visit, content, legacy,
                   progress, buildings, metadata>>

NextDb ==
    \/ \E resume \in BOOLEAN, count \in {0, TotalCount} : ScrapeAll(resume, count)
    \/ StartBatch
    \/ \E ok \in BOOLEAN : FetchBatch(ok)
    \/ \E failed \in {{}, {run.batch_start}} : InsertBuildings(failed)
    \/ FinishRun
    \/ Interrupt

SpecDb == Init /\ [][NextDb]_vars

(***************************************************************************)
(* Properties                                                              *)
(***************************************************************************)
Range(f) == {f[i] : i \in DOMAIN f}

SixFields ==
    {"grade", "list_entry", "coordinates", "architectural_details", "materials",
     "construction_period"}

UnruledFields ==
    {"list_date", "description", "history", "reasons_for_listing", "location",
     "address", "architectural_style", "interior_features", "exterior_features"}

\* some text node of the document has a match of pattern p
MatchesSomewhere(soup, p) == \E s \in Range(AllStrings(soup)) : ReSearch(p, s) # None

\* the paragraph passes the length check and the keyword threshold
Qualifies(el) ==
    /\ Len(Strip(GetText(el))) > MinParagraphLength
    /\ KeywordCount(Strip(GetText(el))) >= KeywordThreshold

NoPatternMatches(soup) ==
    \A p \in Range(grade_patterns) \cup Range(entry_patterns) \cup Range(coord_patterns) :
        ~MatchesSomewhere(soup, p)

NoParagraphQualifies(soup) == \A el \in Range(FindAllP(soup)) : ~Qualifies(el)

\* C1 as stated: the key set of every returned record is exactly the six
\* fields grade, list_entry, coordinates, architectural_details, materials,
\* construction_period.
C1_ExactlySixFields ==
    \A c \in Callers : Done(c) => DOMAIN Record(c) = SixFields

\* C1 amended: every returned record has the six fields, and its key set is
\* exactly those six together with the nine fields that have no extraction
\* rule (fifteen keys).
C1_SixFieldsAmongFifteen ==
    \A c \in Callers :
        Done(c) => /\ SixFields \subseteq DOMAIN Record(c)
                   /\ DOMAIN Record(c) = SixFields \cup UnruledFields
                   /\ Cardinality(DOMAIN Record(c)) = Cardinality(SixFields) + Cardinality(UnruledFields)

\* a call has returned a record in which extraction filled fields
C1_Witness ==
    \E c \in Callers : Done(c) /\ Record(c).grade # "" /\ Record(c).materials # ""

\* C2: no call ever ends in an exception, and in a returned record a field
\* none of whose patterns matches (no paragraph qualifying, for the paragraph
\* fields) is at its default, the empty string.
C2_NeverRaises ==
    \A c \in Callers :
        /\ frame[c].pc # "raised"
        /\ Done(c) =>
            LET soup == frame[c].soup
                none(patterns) == \A p \in Range(patterns) : ~MatchesSomewhere(soup, p)
            IN  /\ none(grade_patterns) => Record(c).grade = ""
                /\ none(entry_patterns) => Record(c).list_entry = ""
                /\ none(coord_patterns) => Record(c).coordinates = ""
                /\ NoParagraphQualifies(soup) =>
                       /\ Record(c).architectural_details = ""
                       /\ Record(c).materials = ""
                       /\ Record(c).construction_period = ""

\* a call on a document without paragraphs has returned: one pattern matched
\* a text node, every other step found nothing
C2_Witness ==
    \E c \in Callers :
        /\ Done(c)
        /\ frame[c].soup # <<>>
        /\ FindAllP(frame[c].soup) = <<>>
        /\ Record(c).grade # ""
        /\ Record(c).list_entry = ""
        /\ Record(c).coordinates = ""

\* C3: when no grade, list-entry or coordinate pattern matches any text node
\* and no paragraph reaches the keyword threshold, every field of the
\* returned record is the empty string.
C3_NotFoundIsEmptyString ==
    \A c \in Callers :
        (Done(c) /\ NoPatternMatches(frame[c].soup) /\ NoParagraphQualifies(frame[c].soup))
            => \A f \in DOMAIN Record(c) : Record(c)[f] = ""

\* a call has returned for a document that has text and paragraphs, none of
\* which gives a field
C3_Witness ==
    \E c \in Callers :
        /\ Done(c)
        /\ FindAllP(frame[c].soup) # <<>>
        /\ NoPatternMatches(frame[c].soup)
        /\ NoParagraphQualifies(frame[c].soup)

\* C4: any two returned records for the same document are identical,
\* whichever callers and scraper objects the calls were made on and whatever
\* calls ran in between
C4_SameInputSameRecord ==
    \A x \in seen : \A y \in seen : x[1] = y[1] => x[2] = y[2]

\* two calls on the same document, on different scraper objects, have both
\* returned a record with fields filled
C4_Witness ==
    /\ \A c \in Callers : Done(c) /\ Record(c).list_entry # ""
    /\ \E c1 \in Callers, c2 \in Callers :
           /\ frame[c1].soup = frame[c2].soup
           /\ frame[c1].self # frame[c2].self

\* C5: under every interleaving, the data dict of each call is at every step
\* what it would be if the call ran alone on its document; so the returned
\* record is the one of a call run alone
C5_AsIfAlone ==
    \A c \in Callers :
        frame[c].pc \in {"grade", "entry", "coord", "paras", "done"}
            => Record(c) = RunAlone(frame[c].soup, frame[c].pc)

\* one call has returned while another, on a different document, is midway
C5_Witness ==
    \E c1 \in Callers, c2 \in Callers :
        /\ Done(c1)
        /\ frame[c2].pc = "paras"
        /\ frame[c1].soup # frame[c2].soup
        /\ Record(c1).materials # ""
        /\ Record(c2).grade # ""

\* the least member of a non-empty set of numbers
Least(S) == CHOOSE i \in S : \A j \in S : i <= j

\* index of the first text node with a match of p; 0 when there is none
FirstNodeIndex(soup, p) ==
    LET ns == AllStrings(soup)
        hits == {i \in 1..Len(ns) : ReSearch(p, ns[i]) # None}
    IN  IF hits = {} THEN 0 ELSE Least(hits)

\* index in order of the first pattern that matches somewhere; 0 when none does
Winner(soup, order) ==
    LET ks == {k \in 1..Len(order) : MatchesSomewhere(soup, order[k])}
    IN  IF ks = {} THEN 0 ELSE Least(ks)

\* the leftmost match of the winning pattern in the first text node it matches
WinningMatch(soup, order) ==
    LET p == order[Winner(soup, order)]
    IN  ReSearch(p, AllStrings(soup)[FirstNodeIndex(soup, p)])

\* what "the first pattern in order that matches anywhere wins" gives
OrderedCapture(soup, order) ==
    IF Winner(soup, order) = 0 THEN "" ELSE Group1(WinningMatch(soup, order))

\* the text of the whole document
DocText(soup) == Join(AllStrings(soup))

\* the positions at which needle occurs in hay
Occurrences(hay, needle) ==
    {i \in 1..(Len(hay) - Len(needle) + 1) : SubSeq(hay, i, i + Len(needle) - 1) = needle}

\* needle occurs in s and its first occurrence is not directly followed by a
\* character of the set
EndsCleanly(s, needle, chars) ==
    /\ Occurrences(s, needle) # {}
    /\ LET after == Least(Occurrences(s, needle)) + Len(needle)
       IN  after > Len(s) \/ CharAt(s, after) \notin chars

NoOtherGradeLikeText(soup) ==
    /\ Cardinality(Occurrences(Lower(DocText(soup)), "grade")) = 1
    /\ EndsCleanly(DocText(soup), "Grade II*", {"I", "i", "2", "*"})

\* C8 as stated: if the text of a paragraph contains "Grade II*" and the
\* document has no other grade-like text, grade is "II*".
C8_ParagraphLiteral ==
    \A c \in Callers :
        ( /\ Done(c)
          /\ \E el \in Range(FindAllP(frame[c].soup)) : Contains(GetText(el), "Grade II*")
          /\ NoOtherGradeLikeText(frame[c].soup) )
            => Record(c).grade = "II*"

\* C8 amended: if a single text node of a paragraph contains "Grade II*" and
\* the document has no other grade-like text, grade is "II*".
C8_TextNodeLiteral ==
    \A c \in Callers :
        ( /\ Done(c)
          /\ \E el \in Range(FindAllP(frame[c].soup)) :
                 \E s \in Range(el.strings) : Contains(s, "Grade II*")
          /\ NoOtherGradeLikeText(frame[c].soup) )
            => Record(c).grade = "II*"

\* a call has returned for a document of several elements, one of them a
\* paragraph with "Grade II*" in one text node
C8_Witness ==
    \E c \in Callers :
        /\ Done(c)
        /\ Len(frame[c].soup) > 1
        /\ \E el \in Range(FindAllP(frame[c].soup)) :
               \E s \in Range(el.strings) : Contains(s, "Grade II*")
        /\ NoOtherGradeLikeText(frame[c].soup)

\* the returned grade is the whole run of characters of the set around the
\* place where the winning pattern captured it
MaximalRunAtMatch(soup, grade, chars) ==
    LET m == WinningMatch(soup, <<GradeSpacePattern, GradeColonPattern, TokenGradePattern>>)
        from == m.bounds[m.gs]
        to == m.bounds[m.ge + 1]
    IN  /\ grade = SubSeq(m.string, from, to - 1)
        /\ from = 1 \/ CharAt(m.string, from - 1) \notin chars
        /\ to > Len(m.string) \/ CharAt(m.string, to) \notin chars

\* C9 as stated: grade is empty or a non-empty maximal run of characters of
\* {I, 2, *}.
C9_UpperCaseToken ==
    \A c \in Callers :
        Done(c) => \/ Record(c).grade = ""
                   \/ /\ CharsOf(Record(c).grade) \subseteq {"I", "2", "*"}
                      /\ MaximalRunAtMatch(frame[c].soup, Record(c).grade, {"I", "2", "*"})

\* C9 amended: grade is empty or a non-empty maximal run of characters of
\* {I, i, 2, *} (the token is matched without regard to case).
C9_AnyCaseToken ==
    \A c \in Callers :
        Done(c) => \/ Record(c).grade = ""
                   \/ /\ Len(Record(c).grade) > 0
                      /\ CharsOf(Record(c).grade) \subseteq {"I", "i", "2", "*"}
                      /\ MaximalRunAtMatch(frame[c].soup, Record(c).grade, {"I", "i", "2", "*"})

\* a returned grade of several characters
C9_Witness ==
    \E c \in Callers : Done(c) /\ Len(Record(c).grade) > 2 /\ "*" \in CharsOf(Record(c).grade)

\* C10 as stated: if the document text contains "NGR: ST 12345 67890",
\* coordinates is "ST 12345 67890".
C10_DocumentLiteral ==
    \A c \in Callers :
        (Done(c) /\ Contains(DocText(frame[c].soup), "NGR: ST 12345 67890"))
            => Record(c).coordinates = "ST 12345 67890"

\* the text node ns[j] holds the first "NGR" of the document, and it is the
\* start of "NGR: ST 12345 67890" with no further digit after it
FirstNgrIsLiteral(ns, j) ==
    /\ \A i \in 1..(j - 1) : ~Contains(Lower(ns[i]), "ngr")
    /\ Contains(Lower(ns[j]), "ngr")
    /\ LET at == Least(Occurrences(Lower(ns[j]), "ngr"))
       IN  /\ at + Len("NGR: ST 12345 67890") - 1 <= Len(ns[j])
           /\ SubSeq(ns[j], at, at + Len("NGR: ST 12345 67890") - 1) = "NGR: ST 12345 67890"
           /\ EndsCleanly(ns[j], "NGR: ST 12345 67890", Digit)

\* C10 amended: if a single text node contains "NGR: ST 12345 67890" with no
\* further digit directly after it, no "NGR" occurs before it in the
\* document, and no text node has a grid reference labeled "National Grid
\* Reference", coordinates is "ST 12345 67890".
C10_TextNodeLiteral ==
    \A c \in Callers :
        ( /\ Done(c)
          /\ \E j \in 1..Len(AllStrings(frame[c].soup)) :
                 FirstNgrIsLiteral(AllStrings(frame[c].soup), j)
          /\ ~MatchesSomewhere(frame[c].soup, CoordPattern("National Grid Reference")) )
            => Record(c).coordinates = "ST 12345 67890"

\* a call has returned for a document in which the literal follows other
\* text and is followed by another grid reference label
C10_Witness ==
    \E c \in Callers :
        /\ Done(c)
        /\ \E j \in 2..Len(AllStrings(frame[c].soup)) :
               FirstNgrIsLiteral(AllStrings(frame[c].soup), j)
        /\ ~MatchesSomewhere(frame[c].soup, CoordPattern("National Grid Reference"))
        /\ MatchesSomewhere(frame[c].soup, CoordPattern("Grid Reference"))

IsGridRefToken(s, letters, gaps) ==
    \E g1 \in 0..1, n1 \in 4..6, g2 \in 0..1, n2 \in 4..6 :
        /\ Len(s) = 2 + g1 + n1 + g2 + n2
        /\ CharsOf(SubSeq(s, 1, 2)) \subseteq letters
        /\ CharsOf(SubSeq(s, 3, 2 + g1)) \subseteq gaps
        /\ CharsOf(SubSeq(s, 3 + g1, 2 + g1 + n1)) \subseteq Digit
        /\ CharsOf(SubSeq(s, 3 + g1 + n1, 2 + g1 + n1 + g2)) \subseteq gaps
        /\ CharsOf(SubSeq(s, 3 + g1 + n1 + g2, Len(s))) \subseteq Digit

\* C12 as stated: coordinates is empty or two uppercase letters, an optional
\* single space, 4 to 6 digits, an optional single space, 4 to 6 digits.
C12_UpperCaseGridRef ==
    \A c \in Callers :
        Done(c) => \/ Record(c).coordinates = ""
                   \/ IsGridRefToken(Record(c).coordinates, CharsOf(UpperLetters), {" "})

\* C12 amended: coordinates is empty or two letters of either case, an
\* optional single whitespace character, 4 to 6 digits, an optional single
\* whitespace character, 4 to 6 digits.
C12_AnyCaseGridRef ==
    \A c \in Callers :
        Done(c) => \/ Record(c).coordinates = ""
                   \/ IsGridRefToken(Record(c).coordinates,
                                     CharsOf(UpperLetters) \cup CharsOf(LowerLetters),
                                     {" ", "\t", "\n"})

\* a returned grid reference whose letters were matched without regard to case
C12_Witness ==
    \E c \in Callers :
        /\ Done(c)
        /\ Record(c).coordinates # ""
        /\ IsGridRefToken(Record(c).coordinates, CharsOf(LowerLetters), {" "})

\* the text of a paragraph as the paragraph loop sees it
ParagraphText(el) == Strip(GetText(el))

\* the fields the paragraph loop writes
ParagraphFields(data) ==
    <<data.architectural_details, data.materials, data.construction_period>>

\* index, among the paragraphs, of the first one that passes the length check
\* and has at least three keywords; 0 when there is none
FirstQualifying(paras) ==
    LET qs == {i \in 1..Len(paras) : Qualifies(paras[i])}
    IN  IF qs = {} THEN 0 ELSE Least(qs)

\* C13: when some paragraph passes the length check and has at least three
\* keywords, architectural_details is the text of the first such paragraph
\* in document order, and architectural_details, materials and
\* construction_period are what that paragraph alone gives: no other
\* paragraph has any influence on them.
C13_FirstQualifyingSelected ==
    \A c \in Callers :
        Done(c) =>
            LET paras == FindAllP(frame[c].soup)
                i == FirstQualifying(paras)
            IN  i # 0 =>
                    /\ Record(c).architectural_details = ParagraphText(paras[i])
                    /\ ParagraphFields(Record(c)) =
                           ParagraphFields(ParagraphLoop(NewData, <<paras[i]>>, 1))

\* a call has returned for a document whose selected paragraph is followed
\* by a paragraph with more keywords and other material and period text
C13_Witness ==
    \E c \in Callers :
        /\ Done(c)
        /\ LET paras == FindAllP(frame[c].soup)
               i == FirstQualifying(paras)
           IN  /\ i # 0
               /\ \E j \in (i + 1)..Len(paras) :
                      /\ Qualifies(paras[j])
                      /\ KeywordCount(ParagraphText(paras[j])) > KeywordCount(ParagraphText(paras[i]))
                      /\ ParagraphFields(ParagraphLoop(NewData, <<paras[j]>>, 1))[2] #
                             Record(c).materials
                      /\ ParagraphFields(ParagraphLoop(NewData, <<paras[j]>>, 1))[3] #
                             Record(c).construction_period
               /\ Record(c).architectural_details = ParagraphText(paras[i])

\* index of the first paragraph whose text has at least n characters; 0 when
\* there is none
FirstOfLength(paras, n) ==
    LET ls == {i \in 1..Len(paras) : Len(ParagraphText(paras[i])) >= n}
    IN  IF ls = {} THEN 0 ELSE Least(ls)

\* the text names coursed rubble, tiled and mullioned, in any letter case
NamesRubbleTiledMullioned(text) ==
    /\ Contains(Lower(text), "coursed rubble")
    /\ Contains(Lower(text), "tiled")
    /\ Contains(Lower(text), "mullioned")

\* what C14 promises for the paragraph text
RubbleRecord(data, text) ==
    /\ data.architectural_details = text
    /\ Contains(data.materials, "coursed rubble stone, ")
    /\ Contains(data.materials, "tiled roof, ")
    /\ data.construction_period = "18"

\* C14 as stated: if the first paragraph of at least 100 characters names
\* coursed rubble, tiled and mullioned and has the phrase "Mid C18", then
\* architectural_details is that paragraph, materials contains "coursed
\* rubble stone, " and "tiled roof, ", and construction_period is "18".
C14_AtLeastHundred ==
    \A c \in Callers :
        Done(c) =>
            LET paras == FindAllP(frame[c].soup)
                i == FirstOfLength(paras, 100)
            IN  ( /\ i # 0
                  /\ NamesRubbleTiledMullioned(ParagraphText(paras[i]))
                  /\ Contains(ParagraphText(paras[i]), "Mid C18") )
                    => RubbleRecord(Record(c), ParagraphText(paras[i]))

\* the first "Mid C" of the text (in any letter case) is followed by 18 and
\* by no further digit
FirstMidIsC18(text) ==
    /\ Contains(Lower(text), "mid c")
    /\ LET at == Least(Occurrences(Lower(text), "mid c")) + Len("mid c")
       IN  /\ at + 1 <= Len(text)
           /\ SubSeq(text, at, at + 1) = "18"
           /\ at + 2 > Len(text) \/ CharAt(text, at + 2) \notin Digit

\* C14 amended: if the first paragraph whose stripped text has more than 100
\* characters names coursed rubble, tiled and mullioned and its first
\* "Mid C" is followed by exactly the digits 18, then architectural_details
\* is that stripped text, materials contains "coursed rubble stone, " and
\* "tiled roof, ", and construction_period is "18".
C14_MoreThanHundred ==
    \A c \in Callers :
        Done(c) =>
            LET paras == FindAllP(frame[c].soup)
                i == FirstOfLength(paras, 101)
            IN  ( /\ i # 0
                  /\ NamesRubbleTiledMullioned(ParagraphText(paras[i]))
                  /\ FirstMidIsC18(ParagraphText(paras[i])) )
                    => RubbleRecord(Record(c), ParagraphText(paras[i]))

\* a call has returned for a document in which such a paragraph of more than
\* 100 characters comes after a paragraph of exactly 100 characters
C14_Witness ==
    \E c \in Callers :
        /\ Done(c)
        /\ LET paras == FindAllP(frame[c].soup)
               i == FirstOfLength(paras, 101)
           IN  /\ i > 1
               /\ Len(ParagraphText(paras[1])) = 100
               /\ NamesRubbleTiledMullioned(ParagraphText(paras[i]))
               /\ FirstMidIsC18(ParagraphText(paras[i]))
               /\ Record(c).construction_period = "18"

\* C15: a paragraph whose text is shorter than 100 characters is never
\* selected, whatever its keyword count: a non-empty architectural_details
\* has at least 100 characters, and architectural_details, materials and
\* construction_period are what the document gives with its short
\* paragraphs taken out.
C15_ShortParagraphSkipped ==
    \A c \in Callers :
        Done(c) =>
            LET paras == FindAllP(frame[c].soup)
                long == SelectSeq(paras, LAMBDA el : Len(ParagraphText(el)) >= 100)
            IN  /\ Record(c).architectural_details # ""
                    => Len(Record(c).architectural_details) >= 100
                /\ \A i \in 1..Len(paras) :
                       (Len(ParagraphText(paras[i])) < 100 /\ ParagraphText(paras[i]) # "")
                           => Record(c).architectural_details # ParagraphText(paras[i])
                /\ ParagraphFields(Record(c)) = ParagraphFields(ParagraphLoop(NewData, long, 1))

\* a call has returned for a document whose first paragraph is short, has
\* three keywords and a period phrase, and was passed over for a later one
C15_Witness ==
    \E c \in Callers :
        /\ Done(c)
        /\ LET paras == FindAllP(frame[c].soup)
           IN  /\ Len(paras) > 1
               /\ Len(ParagraphText(paras[1])) < 100
               /\ KeywordCount(ParagraphText(paras[1])) >= KeywordThreshold
               /\ Contains(ParagraphText(paras[1]), "Mid C18")
               /\ Record(c).architectural_details = ParagraphText(paras[2])
               /\ Record(c).construction_period # "18"

\* C16: a paragraph with fewer than three keywords is passed over -
\* architectural_details, materials and construction_period are what the
\* document gives with those paragraphs taken out - and when no paragraph
\* has three keywords the three fields are empty, whatever material words
\* and period phrases the paragraphs hold.
C16_BelowThresholdSkipped ==
    \A c \in Callers :
        Done(c) =>
            LET paras == FindAllP(frame[c].soup)
                rich == SelectSeq(paras, LAMBDA el : KeywordCount(ParagraphText(el)) >= 3)
            IN  /\ ParagraphFields(Record(c)) = ParagraphFields(ParagraphLoop(NewData, rich, 1))
                /\ rich = <<>> => ParagraphFields(Record(c)) = <<"", "", "">>

\* a call has returned for a document all of whose paragraphs are below the
\* threshold, one of them long, with two keywords, material words and a
\* period phrase
C16_Witness ==
    \E c \in Callers :
        /\ Done(c)
        /\ LET paras == FindAllP(frame[c].soup)
           IN  /\ \A i \in 1..Len(paras) : KeywordCount(ParagraphText(paras[i])) < 3
               /\ \E i \in 1..Len(paras) :
                      /\ Len(ParagraphText(paras[i])) > 100
                      /\ KeywordCount(ParagraphText(paras[i])) = 2
                      /\ Contains(Lower(ParagraphText(paras[i])), "brick")
                      /\ Contains(ParagraphText(paras[i]), "19th century")
        /\ ParagraphFields(Record(c)) = <<"", "", "">>

\* the material literals of C17 with their trigger substrings, in the stated
\* order
MaterialTable ==
    << <<"coursed rubble", "coursed rubble stone, ">>, <<"tiled", "tiled roof, ">>,
       <<"brick", "brick, ">>, <<"timber", "timber, ">> >>

\* the literals of table entries k.. whose trigger occurs in the text in any
\* letter case, concatenated in table order
RECURSIVE TriggeredLiterals(_, _)
TriggeredLiterals(text, k) ==
    IF k > Len(MaterialTable) THEN ""
    ELSE (IF Contains(Lower(text), MaterialTable[k][1]) THEN MaterialTable[k][2] ELSE "")
             \o TriggeredLiterals(text, k + 1)

\* C17: materials is the concatenation, in the order "coursed rubble stone, ",
\* "tiled roof, ", "brick, ", "timber, ", of exactly the literals whose
\* trigger substring occurs (in any letter case) in the selected paragraph;
\* each literal appears at most once, whatever the order of the triggers in
\* the text; materials is empty when no paragraph is selected.
C17_MaterialsFixedOrder ==
    \A c \in Callers :
        Done(c) =>
            LET paras == FindAllP(frame[c].soup)
                i == FirstQualifying(paras)
            IN  /\ Record(c).materials =
                       IF i = 0 THEN "" ELSE TriggeredLiterals(ParagraphText(paras[i]), 1)
                /\ \A k \in 1..Len(MaterialTable) :
                       Cardinality(Occurrences(Record(c).materials, MaterialTable[k][2])) <= 1

\* a returned record with "brick, timber, " from a paragraph that names
\* timber (in capitals) before brick
C17_Witness ==
    \E c \in Callers :
        /\ Done(c)
        /\ Record(c).materials = "brick, timber, "
        /\ LET low == Lower(Record(c).architectural_details)
           IN  /\ ~Contains(Record(c).architectural_details, "timber")
               /\ Least(Occurrences(low, "timber")) < Least(Occurrences(low, "brick"))

\* index of the first pattern of order with a match in the text; 0 when none
FirstPatternIn(text, order) ==
    LET ks == {k \in 1..Len(order) : ReSearch(order[k], text) # None}
    IN  IF ks = {} THEN 0 ELSE Least(ks)

\* the period patterns in the order C18 states them
StatedPeriodOrder ==
    <<PeriodPrefixPattern("Mid C"), PeriodPrefixPattern("Early C"),
      PeriodPrefixPattern("Late C"), PeriodSuffixPattern("th century"),
      PeriodSuffixPattern("th-century")>>

\* C18: construction_period is the digits captured by the first of "Mid
\* C<digits>", "Early C<digits>", "Late C<digits>", "<digits>th century",
\* "<digits>th-century" (in that order) that matches anywhere in the selected
\* paragraph, also when a later-listed pattern matches earlier in the
\* paragraph; it is empty when none matches or no paragraph is selected.
C18_PeriodPrecedence ==
    \A c \in Callers :
        Done(c) =>
            LET paras == FindAllP(frame[c].soup)
                i == FirstQualifying(paras)
                text == ParagraphText(paras[i])
                k == FirstPatternIn(text, StatedPeriodOrder)
            IN  Record(c).construction_period =
                    IF i = 0 THEN ""
                    ELSE IF k = 0 THEN ""
                    ELSE Group1(ReSearch(StatedPeriodOrder[k], text))

\* a returned period captured by "Early C<digits>" although "Late C<digits>",
\* listed later, matches earlier in the selected paragraph with other digits
C18_Witness ==
    \E c \in Callers :
        /\ Done(c)
        /\ Record(c).architectural_details # ""
        /\ LET text == Record(c).architectural_details
               early == ReSearch(PeriodPrefixPattern("Early C"), text)
               late == ReSearch(PeriodPrefixPattern("Late C"), text)
           IN  /\ early # None /\ late # None
               /\ late.bounds[1] < early.bounds[1]
               /\ Group1(late) # Group1(early)
               /\ Record(c).construction_period = Group1(early)

\* what applying the ordered pattern list to one text gives: the capture of
\* the first pattern with a match in it, or the empty string
TextCapture(text, order) ==
    LET k == FirstPatternIn(text, order)
    IN  IF k = 0 THEN "" ELSE Group1(ReSearch(order[k], text))

\* C19 as stated: grade, list_entry and coordinates are what the ordered
\* pattern lists give on the concatenated text of the document, a match
\* whose label and value lie in adjacent text segments included.
C19_ConcatenatedText ==
    \A c \in Callers :
        Done(c) =>
            LET text == DocText(frame[c].soup)
            IN  /\ Record(c).grade = TextCapture(text, grade_patterns)
                /\ Record(c).list_entry = TextCapture(text, entry_patterns)
                /\ Record(c).coordinates = TextCapture(text, coord_patterns)

\* C19 amended: grade, list_entry and coordinates are matched against each
\* text node separately: the field is the capture of the first pattern of
\* its list that matches within a single text node, taken from the first
\* such node, and it is empty when no single text node has a match - also
\* when the concatenated text has one.
C19_TextNodeByNode ==
    \A c \in Callers :
        Done(c) =>
            LET soup == frame[c].soup
                fields == << <<Record(c).grade, grade_patterns>>,
                             <<Record(c).list_entry, entry_patterns>>,
                             <<Record(c).coordinates, coord_patterns>> >>
            IN  \A f \in 1..Len(fields) :
                    /\ fields[f][1] = OrderedCapture(soup, fields[f][2])
                    /\ Winner(soup, fields[f][2]) = 0 => fields[f][1] = ""

\* a call has returned an empty grade for a document whose concatenated
\* text has a grade match with label and value in adjacent text nodes
C19_Witness ==
    \E c \in Callers :
        /\ Done(c)
        /\ TextCapture(DocText(frame[c].soup), grade_patterns) = "II*"
        /\ Winner(frame[c].soup, grade_patterns) = 0
        /\ Record(c).grade = ""

\* the terms of the keyword table
KeywordTerms == Range(architectural_keywords)

\* the number of distinct terms of the table that occur in the text, letter
\* case set aside
DistinctTerms(text) ==
    Cardinality({term \in KeywordTerms : Occurrences(Lower(text), Lower(term)) # {}})

\* C20: the keyword table has 20 distinct terms, and the keyword count of
\* every paragraph is the number of distinct terms that occur in it as
\* case-insensitive substrings: a term that occurs several times counts
\* once, the count is the same for the paragraph in lower case, and it lies
\* between 0 and 20.  The selected paragraph is the first one of more than
\* 100 characters for which that number is at least 3.
C20_DistinctKeywordCount ==
    /\ Len(architectural_keywords) = 20 /\ Cardinality(KeywordTerms) = 20
    /\ \A c \in Callers :
           Done(c) =>
               LET paras == FindAllP(frame[c].soup)
                   counted == {i \in 1..Len(paras) :
                                  /\ Len(ParagraphText(paras[i])) > 100
                                  /\ DistinctTerms(ParagraphText(paras[i])) >= 3}
               IN  /\ \A i \in 1..Len(paras) :
                          LET text == ParagraphText(paras[i])
                          IN  /\ KeywordCount(text) = DistinctTerms(text)
                              /\ KeywordCount(Lower(text)) = KeywordCount(text)
                              /\ KeywordCount(text) \in 0..20
                   /\ Record(c).architectural_details =
                          IF counted = {} THEN "" ELSE ParagraphText(paras[Least(counted)])

\* a call has returned for a document with a long paragraph in which one
\* term occurs twice and another once - two distinct terms - and which was
\* not selected, and with a selected paragraph that has a term in capitals
C20_Witness ==
    \E c \in Callers :
        /\ Done(c)
        /\ LET paras == FindAllP(frame[c].soup)
           IN  /\ Len(paras) > 1
               /\ Len(ParagraphText(paras[1])) > 100
               /\ Cardinality(Occurrences(Lower(ParagraphText(paras[1])), "stone")) = 2
               /\ DistinctTerms(ParagraphText(paras[1])) = 2
               /\ Record(c).architectural_details = ParagraphText(paras[2])
               /\ Contains(ParagraphText(paras[2]), "TIMBER")

\* C21: list_entry is the empty string or the digit string of the winning
\* pattern's first capture group exactly as it stands in the text node,
\* leading zeros kept; when the bare-number fallback is the pattern that
\* matched, it has at least 6 digits.
C21_EntryKeptAsText ==
    \A c \in Callers :
        Done(c) =>
            LET soup == frame[c].soup
                order == <<ListEntryPattern, EntryPattern, BareNumberPattern>>
                w == Winner(soup, order)
                m == WinningMatch(soup, order)
                entry == Record(c).list_entry
            IN  IF w = 0 THEN entry = ""
                ELSE /\ Len(entry) > 0
                     /\ CharsOf(entry) \subseteq Digit
                     /\ entry = SubSeq(m.string, m.bounds[m.gs], m.bounds[m.gs] + Len(entry) - 1)
                     /\ m.bounds[m.gs] + Len(entry) > Len(m.string)
                            \/ CharAt(m.string, m.bounds[m.gs] + Len(entry)) \notin Digit
                     /\ w = 3 => Len(entry) >= 6

\* a returned list_entry that begins with a zero
C21_Witness ==
    \E c \in Callers :
        /\ Done(c)
        /\ Len(Record(c).list_entry) >= 6
        /\ CharAt(Record(c).list_entry, 1) = "0"

\* position, among the paragraphs of the document, of the one whose text is
\* the given architectural_details
PositionOf(soup, details) ==
    Least({i \in 1..Len(FindAllP(soup)) : ParagraphText(FindAllP(soup)[i]) = details})

\* C26: run on the same document, the earlier copy of the extractor and the
\* extractor of the scraper class give the same grade, list_entry and
\* coordinates, and whenever the earlier copy selects a paragraph as
\* architectural_details the scraper class selects one too, at the same or
\* an earlier position in the document.
C26_LegacyAgrees ==
    legacy.pc = "both" =>
        /\ legacy.old.grade = legacy.new.grade
        /\ legacy.old.list_entry = legacy.new.list_entry
        /\ legacy.old.coordinates = legacy.new.coordinates
        /\ legacy.old.architectural_details # "" =>
               /\ legacy.new.architectural_details # ""
               /\ PositionOf(legacy.soup, legacy.new.architectural_details)
                      <= PositionOf(legacy.soup, legacy.old.architectural_details)

\* both extractors have run on a document in which the earlier copy selects
\* the second paragraph and the scraper class the first
C26_Witness ==
    /\ legacy.pc = "both"
    /\ legacy.old.architectural_details # ""
    /\ legacy.old.grade = legacy.new.grade
    /\ PositionOf(legacy.soup, legacy.new.architectural_details) = 1
    /\ PositionOf(legacy.soup, legacy.old.architectural_details) = 2

\* C27: in every returned record a non-empty materials or a non-empty
\* construction_period comes with a non-empty architectural_details, and a
\* non-empty architectural_details is the stripped text of a paragraph of
\* the document that has more than 100 characters and at least 3 distinct
\* keywords.
C27_ParagraphFieldsTogether ==
    \A c \in Callers :
        Done(c) =>
            /\ (Record(c).materials # "" \/ Record(c).construction_period # "")
                   => Record(c).architectural_details # ""
            /\ Record(c).architectural_details # "" =>
                   \E el \in Range(FindAllP(frame[c].soup)) :
                       /\ Record(c).architectural_details = ParagraphText(el)
                       /\ Len(ParagraphText(el)) > 100
                       /\ DistinctTerms(ParagraphText(el)) >= 3

\* a returned record with materials and construction_period filled, whose
\* architectural_details is a paragraph text that had whitespace stripped
C27_Witness ==
    \E c \in Callers :
        /\ Done(c)
        /\ Record(c).materials # ""
        /\ Record(c).construction_period # ""
        /\ \E el \in Range(FindAllP(frame[c].soup)) :
               /\ Record(c).architectural_details = ParagraphText(el)
               /\ ParagraphText(el) # GetText(el)

\* C28: the fields without an extraction rule (list_date, description,
\* history, reasons_for_listing, location, address, architectural_style,
\* interior_features, exterior_features) are the empty string throughout a
\* call and in its returned record, and no step of a call changes the
\* document it was given or an attribute (driver, headless) of a scraper
\* object.
C28_UnruledFieldsUntouched ==
    /\ [](\A c \in Callers :
              frame[c].pc \in {"grade", "entry", "coord", "paras", "done"}
                  => \A f \in UnruledFields : Record(c)[f] = "")
    /\ [][/\ \A c \in Callers :
                 (frame[c].pc # "idle" /\ frame'[c].pc # "idle")
                     => frame'[c].soup = frame[c].soup
          /\ objects' = objects]_vars

\* a call has returned a record with extracted fields for a document of
\* several elements, on a scraper object with its attributes as constructed
C28_Witness ==
    \E c \in Callers :
        /\ Done(c)
        /\ Len(frame[c].soup) > 1
        /\ Record(c).architectural_details # ""
        /\ Record(c).grade # ""
        /\ \A f \in UnruledFields : Record(c)[f] = ""
        /\ objects[frame[c].self] = NewScraper

\* the tab name contains "official" or "list entry", letter case set aside
NamesListEntryTab(tab_name) ==
    \E word \in {"official", "list entry"} : Occurrences(Lower(tab_name), word) # {}

\* C29: _extract_tab_content fills specific_data with the extracted record
\* exactly when the tab name contains "official" or "list entry" in any
\* letter case; for every other tab name specific_data is the empty
\* mapping; headings, paragraphs, images, links and text_content are what
\* they are for tab name "Overview", whatever the tab name.
C29_OnlyListEntryTab ==
    content.result # None =>
        LET r == content.result
        IN  /\ r.tab_name = content.tab_name
            /\ NamesListEntryTab(content.tab_name) <=> r.specific_data = Extract(content.soup)
            /\ ~NamesListEntryTab(content.tab_name) <=> DOMAIN r.specific_data = {}
            /\ [r EXCEPT !.tab_name = "Overview", !.specific_data = EmptyDict]
                   = ExtractTabContent(content.soup, "Overview")

\* the function has returned for a tab name with capitals that names the
\* list entry tab, with an extracted grade, a paragraph and a link
C29_Witness ==
    /\ content.result # None
    /\ content.tab_name # Lower(content.tab_name)
    /\ NamesListEntryTab(content.tab_name)
    /\ content.result.specific_data.grade = "II"
    /\ Len(content.result.paragraphs) = 1
    /\ Len(content.result.links) = 1

\* C25: on one scraper object, over any sequence of scrape_building and
\* scrape_with_tabs calls, every driver that was created is quit exactly
\* once by the time its call has returned, and quit is never called on a
\* driver that was quit before.
C25_EachDriverQuitOnce ==
    /\ \A n \in DOMAIN drivers : drivers[n].quits <= 1
    /\ visit.pc \in {"idle", "returned"} => \A n \in DOMAIN drivers : drivers[n].quits = 1

\* a second call on the same object has failed to create a driver and has
\* returned, after a first call that created one
C25_SecondCallWithoutDriver ==
    /\ visit.pc = "returned"
    /\ visit.calls = 2
    /\ Len(drivers) = 1
    /\ objects[visit.self].driver = 1

\* C30: in the result of scrape_with_tabs, for any outcome of the tab
\* search and of each click, tabs_processed is the length of tabs_clicked,
\* no tab text is twice in tabs_clicked, and every text in tabs_clicked is
\* also in tabs_found.
C30_ClickedTabsAreFound ==
    (visit.method = "scrape_with_tabs" /\ visit.result # None) =>
        LET all_content == visit.result.tab_content
            tabs_clicked == all_content.tabs_clicked
        IN  /\ visit.result.tabs_processed = Len(tabs_clicked)
            /\ \A i, j \in DOMAIN tabs_clicked : tabs_clicked[i] = tabs_clicked[j] => i = j
            /\ \A i \in DOMAIN tabs_clicked : tabs_clicked[i] \in Range(all_content.tabs_found)

\* what does hold of the result: the count and the absence of repetition
C30_CountAndNoRepeat ==
    (visit.method = "scrape_with_tabs" /\ visit.result # None) =>
        LET tabs_clicked == visit.result.tab_content.tabs_clicked
        IN  /\ visit.result.tabs_processed = Len(tabs_clicked)
            /\ \A i, j \in DOMAIN tabs_clicked : tabs_clicked[i] = tabs_clicked[j] => i = j
            /\ Range(tabs_clicked) \subseteq Range(visit.found_tabs)
            /\ visit.result.tab_content.tabs_found = <<>>

\* scrape_with_tabs has returned a result with two clicked tabs
C30_TwoTabsClicked ==
    /\ visit.method = "scrape_with_tabs"
    /\ visit.pc = "returned"
    /\ visit.result # None
    /\ visit.result.tabs_processed = 2

\* the record offsets of row i of the progress table
RowRange(i) == progress[i].batch_start .. progress[i].batch_end

\* scrape_all has just worked out where a resumed run starts
ResumeStart == run.pc = "loop" /\ run.batch_num = 0 /\ run.resume

\* C22: when a resumed run starts, every record offset below its start
\* offset belongs to a completed batch whose fetch returned data and whose
\* records were inserted; a batch whose fetch failed or returned nothing is
\* not counted as processed.
C22_ResumeSkipsOnlyProcessed ==
    ResumeStart =>
        \A o \in 0 .. run.start_offset - 1 :
            /\ o \in buildings
            /\ \E i \in Completed(progress) : o \in RowRange(i) /\ progress[i].records_processed > 0
            /\ \A i \in Completed(progress) : o \in RowRange(i) => progress[i].records_processed > 0

\* a resumed run starts above a batch whose fetch returned nothing, and no
\* insert has failed
C22_ResumeAboveEmptyBatch ==
    /\ ResumeStart
    /\ \A i \in DOMAIN progress : progress[i].error_count = 1 => progress[i].records_processed = 0
    /\ \E i \in Completed(progress) :
           /\ progress[i].records_processed = 0
           /\ progress[i].batch_end < run.start_offset
           /\ RowRange(i) \cap buildings = {}

\* the offsets covered by the completed rows
CoveredOffsets == UNION {RowRange(i) : i \in Completed(progress)}

\* C23: across one run and later resumed runs, the ranges of the completed
\* batches are pairwise disjoint; the batches of one run are contiguous, at
\* most batch_size wide and end at total_count-1; a resumed run starts at
\* the first offset not yet covered; and after a run that was not
\* interrupted offsets 0..total_count-1 are covered.
C23_CompletedRangesPartition ==
    run.restarts = 0 =>
        /\ \A i, j \in Completed(progress) : i # j => RowRange(i) \cap RowRange(j) = {}
        /\ \A i \in run.started :
               /\ progress[i].batch_end - progress[i].batch_start + 1 \in 1..BatchSize
               /\ i + 1 \in run.started => progress[i + 1].batch_start = progress[i].batch_end + 1
               /\ progress[i].batch_end <= run.total_count - 1
        /\ ResumeStart =>
               /\ 0 .. run.start_offset - 1 \subseteq CoveredOffsets
               /\ run.start_offset \notin CoveredOffsets
        /\ (run.pc = "returned" /\ ~run.interrupted /\ run.total_count > 0) =>
               /\ CoveredOffsets = 0 .. run.total_count - 1
               /\ \E i \in run.started : progress[i].batch_end = run.total_count - 1

\* a resumed run, with no restart before it, has completed a batch that
\* begins at the last offset of an earlier completed batch
C23_ResumedBatchOverlaps ==
    /\ run.restarts = 0
    /\ run.resume
    /\ \E i \in Completed(progress), j \in Completed(progress) \cap run.started :
           i \notin run.started /\ progress[j].batch_start = progress[i].batch_end

\* the batches the running call has started that are still 'in_progress'
InProgressStarted == {i \in run.started : progress[i].status = "in_progress"}

\* C24: in a scrape_all run that is not interrupted, at most one of the
\* batches it has started is 'in_progress' at any time, namely the one
\* whose id start_batch returned last; none is between two rounds of the
\* loop or when the run has returned; and a row is changed only by the one
\* complete_batch that takes the current batch from 'in_progress' to
\* 'completed', on the data and on the no-data path.
C24_OneBatchInProgress ==
    /\ [](~run.interrupted =>
            /\ Cardinality(InProgressStarted) <= 1
            /\ run.pc \in {"fetch", "insert"} => InProgressStarted = {run.batch_id}
            /\ run.pc \in {"loop", "returned"} => InProgressStarted = {})
    /\ [][\A i \in DOMAIN progress :
              progress'[i] # progress[i] =>
                  /\ i = run.batch_id
                  /\ progress[i].status = "in_progress"
                  /\ progress'[i].status = "completed"]_vars

\* a run that was not interrupted has returned after a batch without data
\* and a batch with data
C24_Witness ==
    /\ run.pc = "returned"
    /\ ~run.interrupted
    /\ \E i, j \in run.started :
           /\ progress[i].records_processed = 0 /\ progress[i].error_count = 1
           /\ progress[j].records_processed > 0
    /\ \A i \in run.started : progress[i].status = "completed"

====
